---- MODULE Spec2Model ----
(***************************************************************************)
(* Order / inventory model of the restaurant point-of-sale application.    *)
(* Two front-ends share the model: the Tkinter one (gui/restaurant_app.py, *)
(* ui = "tk") and the CustomTkinter one                                    *)
(* (gui/customtkinter_restaurant_app.py, ui = "ctk").                      *)
(*                                                                         *)
(* Money is in cents.  Timestamps written to the ledger are left out: they *)
(* are display-only and never read back.                                   *)
(***************************************************************************)
EXTENDS Integers, Sequences, FiniteSets, TLC

(***************************************************************************)
(* Bounds of the model.                                                    *)
(***************************************************************************)
MaxStock == 2       \* largest stock value a file or the update dialog holds
MaxQty == 2         \* largest number typed into the quantity entry
MaxCart == 3        \* most line items in the active cart (session model)
MaxHeld == 2        \* most held (carry-out) orders at a time
MaxHoldSeq == 2     \* hold_seq stops growing here
MaxAppends == 2     \* most order blocks appended to the ledger
MaxWin == 1         \* most checkout confirmation windows open at once
MaxSteps == 5       \* handler invocations in a session of the whole-session model
AddMaxBefore == 1   \* longest cart an add starts from (add model)

(***************************************************************************)
(* Program constants.                                                      *)
(***************************************************************************)
TAX_RATE_PCT == 7   \* RestaurantApp.TAX_RATE = 0.07

(***************************************************************************)
(* The catalog.  Product and add-on identifiers live in separate           *)
(* namespaces, so the same number names a product and an add-on.           *)
(***************************************************************************)
ProdIds == {1, 2}
AddonIds == {1, 2}

prodName == (1 :> "Burger") @@ (2 :> "Order #7 Combo")
addonName == (1 :> "Cheese") @@ (2 :> "Bacon")
prodPrice == (1 :> 500) @@ (2 :> 650)
addonPrice == (1 :> 50) @@ (2 :> 75)

\* prodPresetAddons after split(','): 'None' and '' mean "no preset add-ons".
NoPresets == {<<"None">>, <<"">>}
MenuPresets == (1 :> <<"None">>) @@ (2 :> <<"1", "2">>)

\* int(a) on a preset token: the tokens that parse, and their values.
TokInt == ("1" :> 1) @@ ("2" :> 2) @@ ("9" :> 9)
IsIntText(a) == a \in DOMAIN TokInt

\* str.startswith("Order #") on the first field of a ledger line.
StartsWithOrderNo(s) == s \in {"Order #", "Order #7 Combo"}

(***************************************************************************)
(* Text typed into an entry widget: either not a number, or a numeral.     *)
(* int(text) raises ValueError exactly when num is FALSE.                  *)
(***************************************************************************)
NotANumber == [num |-> FALSE, val |-> 0]
Numeral(v) == [num |-> TRUE, val |-> v]
QtyTexts == {NotANumber} \cup {Numeral(v) : v \in (0 - 1)..MaxQty}
StockTexts == {NotANumber} \cup {Numeral(v) : v \in (0 - 1)..MaxStock}
TipTexts == {NotANumber, Numeral(0 - 1), Numeral(1)}

(***************************************************************************)
(* Line items: (catalog entry, quantity).  The entry is a Product or an    *)
(* Addon object; the code tells them apart with hasattr(item,'addonPrice').*)
(***************************************************************************)
LineItem(t, id, q) == [t |-> t, id |-> id, q |-> q]
is_addon(item) == item.t = "Addon"
itemName(item) == IF is_addon(item) THEN addonName[item.id] ELSE prodName[item.id]
itemPrice(item) == IF is_addon(item) THEN addonPrice[item.id] ELSE prodPrice[item.id]

\* total that adds the unit prices and leaves the quantities out.
RECURSIVE total_unit_prices(_)
total_unit_prices(items) ==
    IF items = <<>> THEN 0
    ELSE itemPrice(Head(items)) + total_unit_prices(Tail(items))

RECURSIVE total(_)
total(items) ==
    IF items = <<>> THEN 0
    ELSE itemPrice(Head(items)) * Head(items).q + total(Tail(items))

Pop(s, i) == SubSeq(s, 1, i - 1) \o SubSeq(s, i + 1, Len(s))

IsPrefix(s, t) == Len(s) <= Len(t) /\ SubSeq(t, 1, Len(s)) = s

RECURSIVE QtyOf(_, _, _)
QtyOf(items, t, id) ==
    IF items = <<>> THEN 0
    ELSE (IF Head(items).t = t /\ Head(items).id = id THEN Head(items).q ELSE 0)
         + QtyOf(Tail(items), t, id)

(***************************************************************************)
(* BackendAdapter: stock adjustment.                                       *)
(***************************************************************************)
\* InventoryHandler.updateStock(pid, delta): bounded adjustment of a product.
updateStock(ps, pid, delta) ==
    IF pid \notin DOMAIN ps THEN [ok |-> FALSE, stock |-> ps]
    ELSE IF ps[pid] + delta < 0 THEN [ok |-> FALSE, stock |-> ps]
    ELSE [ok |-> TRUE, stock |-> [ps EXCEPT ![pid] = ps[pid] + delta]]

reduce_stock(ps, pid, qty) == updateStock(ps, pid, 0 - qty)

\* reduce_addon_stock without its "new_stock < 0" branch.
reduce_addon_stock_unchecked(as, aid, qty) ==
    IF aid \notin DOMAIN as THEN [ok |-> FALSE, stock |-> as]
    ELSE [ok |-> TRUE, stock |-> [as EXCEPT ![aid] = as[aid] - qty]]

\* reduce_addon_stock that always takes one unit.
reduce_addon_stock_one(as, aid, qty) ==
    IF aid \notin DOMAIN as THEN [ok |-> FALSE, stock |-> as]
    ELSE IF as[aid] - qty < 0 THEN [ok |-> FALSE, stock |-> as]
    ELSE [ok |-> TRUE, stock |-> [as EXCEPT ![aid] = as[aid] - 1]]

\* reduce_addon_stock that also refuses to reach zero.
reduce_addon_stock_strict(as, aid, qty) ==
    IF aid \notin DOMAIN as THEN [ok |-> FALSE, stock |-> as]
    ELSE IF as[aid] - qty <= 0 THEN [ok |-> FALSE, stock |-> as]
    ELSE [ok |-> TRUE, stock |-> [as EXCEPT ![aid] = as[aid] - qty]]

reduce_addon_stock(as, aid, qty) ==
    IF aid \notin DOMAIN as THEN [ok |-> FALSE, stock |-> as]
    ELSE LET new_stock == as[aid] - qty IN
         IF new_stock < 0 THEN [ok |-> FALSE, stock |-> as]
         ELSE [ok |-> TRUE, stock |-> [as EXCEPT ![aid] = new_stock]]

(***************************************************************************)
(* BackendAdapter: commit and load.  The product file is kept as the       *)
(* stock field of each record; the add-on file as its lines <<key, value>>.*)
(***************************************************************************)
\* InventoryHandler.commitMultipleStock(ids): rewrite the stock field of the
\* records whose identifier is listed.
commitMultipleStock(file, ps, ids) ==
    [id \in DOMAIN file |-> IF id \in ids /\ id \in DOMAIN ps THEN ps[id] ELSE file[id]]

save_products(file, ps, io) ==
    IF io THEN [ok |-> TRUE, file |-> commitMultipleStock(file, ps, DOMAIN ps)]
    ELSE [ok |-> FALSE, file |-> file]

AddonRecord(id, stock) ==
    << <<"addonID=", id>>, <<"addonName=", id>>,
       <<"addonPrice=", addonPrice[id]>>, <<"addonStock=", stock>> >>

AddonFileOf(as) == AddonRecord(1, as[1]) \o AddonRecord(2, as[2])

\* The scan of save_addons: in_addon is the tracked identifier of the record
\* block the scan is in, or 0 (None) outside one.
RECURSIVE ScanAddonLines(_, _, _)
ScanAddonLines(lines, stock_map, in_addon) ==
    IF lines = <<>> THEN <<>>
    ELSE LET line == Head(lines) IN
         IF line[1] = "addonID="
         THEN <<line>> \o ScanAddonLines(Tail(lines), stock_map,
                              IF line[2] \in DOMAIN stock_map THEN line[2] ELSE 0)
         ELSE IF in_addon # 0 /\ line[1] = "addonStock="
         THEN << <<"addonStock=", stock_map[in_addon]>> >>
              \o ScanAddonLines(Tail(lines), stock_map, in_addon)
         ELSE <<line>> \o ScanAddonLines(Tail(lines), stock_map, in_addon)

\* int(line.split("=")[1].strip()) raises ValueError on the line "addonID=x";
\* the scan visits every line, and the file is written only after it.
ScanRaises(lines) == \E i \in 1..Len(lines) : lines[i][1] = "addonID=x"

\* A commit that opens the file in mode 'a': the scanned lines follow the old.
save_addons_append(lines, as, io) ==
    IF io /\ ~ScanRaises(lines)
    THEN [ok |-> TRUE, file |-> lines \o ScanAddonLines(lines, as, 0)]
    ELSE [ok |-> FALSE, file |-> lines]

\* A commit whose except branch returns True as well.
save_addons_silent(lines, as, io) ==
    IF io /\ ~ScanRaises(lines)
    THEN [ok |-> TRUE, file |-> ScanAddonLines(lines, as, 0)]
    ELSE [ok |-> TRUE, file |-> lines]

\* io: whether the file can be read and written.  Every exception of the body
\* is caught and answered with False.
save_addons(lines, as, io) ==
    IF io /\ ~ScanRaises(lines)
    THEN [ok |-> TRUE, file |-> ScanAddonLines(lines, as, 0)]
    ELSE [ok |-> FALSE, file |-> lines]

\* InventoryHandler.loadDataFile(defaultAddonFile, "Addon"): the stock of an
\* add-on is the addonStock field that follows its addonID line.
RECURSIVE LoadAddonStock(_, _, _)
LoadAddonStock(lines, cur, acc) ==
    IF lines = <<>> THEN acc
    ELSE LET line == Head(lines) IN
         IF line[1] = "addonID="
         THEN LoadAddonStock(Tail(lines), line[2], acc)
         ELSE IF line[1] = "addonStock=" /\ cur \in DOMAIN acc
         THEN LoadAddonStock(Tail(lines), cur, [acc EXCEPT ![cur] = line[2]])
         ELSE LoadAddonStock(Tail(lines), cur, acc)

loadAddons(lines) == LoadAddonStock(lines, 0, [a \in AddonIds |-> 0])
loadProducts(file) == file

(***************************************************************************)
(* AppOrder.save_to_file: the block appended to the order ledger.  A line  *)
(* is <<first field, n1, n2, n3>>.                                         *)
(***************************************************************************)
RECURSIVE CountOrderLines(_)
CountOrderLines(lines) ==
    IF lines = <<>> THEN 0
    ELSE (IF StartsWithOrderNo(Head(lines)[1]) THEN 1 ELSE 0)
         + CountOrderLines(Tail(lines))

NextOrderNumber(file) == 1 + CountOrderLines(file)

ItemLine(item) == <<itemName(item), item.q, itemPrice(item), itemPrice(item) * item.q>>

OrderBlock(order_number, items, tax, tip) ==
    << <<"Order #", order_number, 0, 0>> >>
    \o [k \in 1..Len(items) |-> ItemLine(items[k])]
    \o << <<"Subtotal: $", total(items), 0, 0>>,
          <<"Tax: $", tax, 0, 0>>,
          <<"Tip: $", tip, 0, 0>>,
          <<"Total: $", total(items) + tax + tip, 0, 0>>,
          <<"", 0, 0, 0>> >>

\* save_to_file opening the ledger for writing instead of appending.
save_to_file_overwrite(file, items, tax, tip) ==
    OrderBlock(NextOrderNumber(file), items, tax, tip)

save_to_file(file, items, tax, tip) ==
    file \o OrderBlock(NextOrderNumber(file), items, tax, tip)

\* tip = float(tip_str); negative or unparsable becomes 0.0
TipOf(text) == IF text.num /\ text.val >= 0 THEN text.val ELSE 0
TaxOf(subtotal) == (subtotal * TAX_RATE_PCT) \div 100

(***************************************************************************)
(* models/order.py: Order.save_to_file.  Order.total reads the attribute   *)
(* 'price' with default 0.0; price_attr tells whether the entries carry it.*)
(***************************************************************************)
OrderItemLine(item, price_attr) ==
    LET price == IF price_attr THEN itemPrice(item) ELSE 0
    IN <<itemName(item), item.q, price, price * item.q>>

RECURSIVE OrderTotal(_, _)
OrderTotal(items, price_attr) ==
    IF items = <<>> THEN 0
    ELSE OrderItemLine(Head(items), price_attr)[4] + OrderTotal(Tail(items), price_attr)

Order_save_to_file(file, items, price_attr, tax, tip) ==
    file
    \o << <<"Order Timestamp: ", 0, 0, 0>> >>
    \o [k \in 1..Len(items) |-> OrderItemLine(items[k], price_attr)]
    \o << <<"Subtotal: $", OrderTotal(items, price_attr), 0, 0>>,
          <<"Tax: $", tax, 0, 0>>,
          <<"Tip: $", tip, 0, 0>>,
          <<"Total: $", OrderTotal(items, price_attr) + tax + tip, 0, 0>>,
          <<"----------------------------------------", 0, 0, 0>> >>

(***************************************************************************)
(* State.                                                                  *)
(***************************************************************************)
VARIABLES
    ui,                     \* "tk" or "ctk": the front-end main.py launched
    prodPresetAddons,       \* product id -> preset add-on tokens
    prodStock,              \* handler.productList: product id -> prodStock
    addonStock,             \* handler.addonList: add-on id -> addonStock
    prodFile,               \* product file: product id -> persisted prodStock
    addonFile,              \* add-on file: its lines
    order,                  \* self.order.items
    held_orders,            \* self.held_orders
    hold_labels,            \* the "#n" of each parent row of hold_list
    hold_seq,               \* self.hold_seq
    order_sent_to_kitchen,  \* self.order_sent_to_kitchen (ctk only)
    wins,                   \* open checkout confirmation windows
    ledger,                 \* DatabaseFiles/orders.txt: its lines
    last,                   \* the handler that ran last and the dialog it showed
    steps                   \* handlers run so far (whole-session model only)

vars == <<ui, prodPresetAddons, prodStock, addonStock, prodFile,
          addonFile, order, held_orders, hold_labels, hold_seq,
          order_sent_to_kitchen, wins, ledger, last, steps>>

config == <<ui, prodPresetAddons>>
stocks == <<prodStock, addonStock>>
files == <<prodFile, addonFile>>
holds == <<held_orders, hold_labels, hold_seq>>

Did(op, dialog) == [op |-> op, dialog |-> dialog]

\* RestaurantApp.__init__ over the files the process finds at start.
Construct(u, presets, pf, af, lg) ==
    /\ ui = u
    /\ prodPresetAddons = presets
    /\ prodFile = pf
    /\ addonFile = af
    /\ prodStock = loadProducts(pf)
    /\ addonStock = loadAddons(af)
    /\ order = <<>>
    /\ held_orders = <<>>
    /\ hold_labels = <<>>
    /\ hold_seq = 1
    /\ order_sent_to_kitchen = FALSE
    /\ wins = 0
    /\ ledger = lg
    /\ last = Did("__init__", "")
    /\ steps = 0

Init ==
    \E u \in {"tk", "ctk"} :
        Construct(u, MenuPresets, [p \in ProdIds |-> MaxStock],
                  AddonFileOf([a \in AddonIds |-> MaxStock]), <<>>)

(***************************************************************************)
(* Adding to the cart.                                                     *)
(***************************************************************************)
\* The quantity check with "qty < 0" for "qty <= 0".
BadQuantity_negative(text) == ~text.num \/ text.val < 0

\* int() raises ValueError, or the handler raises it itself for qty <= 0.
BadQuantity(text) == ~text.num \/ text.val <= 0

\* The inner validation loop of add_to_order over the preset tokens:
\* "ok", or the dialog that ends the handler.
RECURSIVE CheckPresets(_, _, _)
CheckPresets(toks, as, qty) ==
    IF toks = <<>> THEN "ok"
    ELSE LET a == Head(toks) IN
         IF ~IsIntText(a) THEN "errorPopup: prodPresetAddons is not an integer"
         ELSE IF TokInt[a] \notin DOMAIN as THEN "Error: Product not found"
         ELSE IF as[TokInt[a]] < qty THEN "Out of Stock: preset addon"
         ELSE CheckPresets(Tail(toks), as, qty)

PresetGroup(pid, toks) ==
    <<LineItem("Product", pid, 1)>>
    \o [k \in 1..Len(toks) |-> LineItem("Addon", TokInt[toks[k]], 1)]

\* The preset loop validating each pass against the units added so far
\* instead of the full quantity.
RECURSIVE AddGroups_per_unit(_, _, _, _, _, _)
AddGroups_per_unit(items, pid, toks, as, qty, n) ==
    IF n = 0 THEN [items |-> items, dialog |-> ""]
    ELSE LET v == CheckPresets(toks, as, qty - n + 1) IN
         IF v # "ok" THEN [items |-> items, dialog |-> v]
         ELSE AddGroups_per_unit(items \o PresetGroup(pid, toks), pid, toks, as, qty, n - 1)

\* The preset loop replaced by one group carrying the whole quantity.
AddGroups_bulk(items, pid, toks, as, qty, n) ==
    LET v == CheckPresets(toks, as, qty) IN
    IF v # "ok" THEN [items |-> items, dialog |-> v]
    ELSE [items |-> items \o <<LineItem("Product", pid, qty)>>
                         \o [k \in 1..Len(toks) |-> LineItem("Addon", TokInt[toks[k]], qty)],
          dialog |-> ""]

\* "for i in range(qty)": n iterations are left.
RECURSIVE AddGroups(_, _, _, _, _, _)
AddGroups(items, pid, toks, as, qty, n) ==
    IF n = 0 THEN [items |-> items, dialog |-> ""]
    ELSE LET v == CheckPresets(toks, as, qty) IN
         IF v # "ok" THEN [items |-> items, dialog |-> v]
         ELSE AddGroups(items \o PresetGroup(pid, toks), pid, toks, as, qty, n - 1)

\* add_to_order with a row of the product tree selected.
AddProduct(items, ps, as, presets, iid, text) ==
    IF BadQuantity(text) THEN [items |-> items, dialog |-> "Bad Quantity"]
    ELSE IF iid \notin DOMAIN ps THEN [items |-> items, dialog |-> "Error: Product not found"]
    ELSE IF ps[iid] < text.val THEN [items |-> items, dialog |-> "Out of Stock: product"]
    ELSE IF presets[iid] \in NoPresets
         THEN [items |-> items \o <<LineItem("Product", iid, text.val)>>, dialog |-> ""]
         ELSE AddGroups(items, iid, presets[iid], as, text.val, text.val)

\* add_mod of the Tkinter front-end (and its add_to_order with a row of the
\* add-on tree selected, which repeats the same checks).
AddModTk(items, as, aid, text) ==
    IF BadQuantity(text) THEN [items |-> items, dialog |-> "Bad Quantity"]
    ELSE IF aid \notin DOMAIN as THEN [items |-> items, dialog |-> "Error: Addon not found"]
    ELSE IF as[aid] < text.val THEN [items |-> items, dialog |-> "Out of Stock: addon"]
    ELSE [items |-> items \o <<LineItem("Addon", aid, text.val)>>, dialog |-> ""]

\* add_mod of the CustomTkinter front-end: always one unit, the entry is not read.
AddModCtk(items, as, aid) ==
    IF aid \notin DOMAIN as THEN [items |-> items, dialog |-> "Error: Addon not found"]
    ELSE IF as[aid] < 1 THEN [items |-> items, dialog |-> "Out of Stock: addon"]
    ELSE [items |-> items \o <<LineItem("Addon", aid, 1)>>, dialog |-> ""]

AddMod(u, items, as, aid, text) ==
    IF u = "tk" THEN AddModTk(items, as, aid, text) ELSE AddModCtk(items, as, aid)

add_to_order(tree, iid, text) ==
    LET r == IF tree = "menu_tree"
             THEN AddProduct(order, prodStock, addonStock, prodPresetAddons, iid, text)
             ELSE AddMod(ui, order, addonStock, iid, text)
    IN /\ order' = r.items
       /\ last' = Did("add_to_order", r.dialog)
       /\ UNCHANGED <<config, stocks, files, holds, order_sent_to_kitchen, wins, ledger>>

add_mod(aid, text) ==
    LET r == AddMod(ui, order, addonStock, aid, text)
    IN /\ order' = r.items
       /\ last' = Did("add_mod", r.dialog)
       /\ UNCHANGED <<config, stocks, files, holds, order_sent_to_kitchen, wins, ledger>>

(***************************************************************************)
(* Removing from the cart.                                                 *)
(***************************************************************************)
\* remove_last_item that puts the units of the popped line item back in stock.
remove_last_item_restock ==
    /\ order' = IF order # <<>> THEN SubSeq(order, 1, Len(order) - 1) ELSE order
    /\ prodStock' = IF order # <<>> /\ ~is_addon(order[Len(order)])
                    THEN [prodStock EXCEPT ![order[Len(order)].id] = @ + order[Len(order)].q]
                    ELSE prodStock
    /\ last' = Did("remove_last_item", "")
    /\ UNCHANGED <<config, addonStock, files, holds, order_sent_to_kitchen, wins, ledger>>

remove_last_item ==
    /\ order' = IF order # <<>> THEN SubSeq(order, 1, Len(order) - 1) ELSE order
    /\ last' = Did("remove_last_item", "")
    /\ UNCHANGED <<config, stocks, files, holds, order_sent_to_kitchen, wins, ledger>>

\* update_order_tree: line item i is shown as a top-level row when it is a
\* product, or an add-on with no product before it (parent_id is still None).
IsTopRow(items, i) == ~is_addon(items[i]) \/ \A j \in 1..(i - 1) : is_addon(items[j])
\* position (from 0) of row i among the top-level rows
TopIndex(items, i) == Cardinality({j \in 1..(i - 1) : IsTopRow(items, j)})

\* Tkinter _remove_from_dine_in; sel is the line item whose row is selected,
\* 0 for a selection that names no row of the rebuilt tree.
RemoveSelTk(items, sel) ==
    IF items = <<>> THEN [items |-> items, dialog |-> ""]
    ELSE IF sel = 0 \/ ~IsTopRow(items, sel)
         THEN [items |-> items, dialog |-> "Error: Could not remove selected item"]
    ELSE LET item_index == TopIndex(items, sel) IN
         IF item_index < Len(items)
         THEN [items |-> Pop(items, item_index + 1), dialog |-> "Removed"]
         ELSE [items |-> items, dialog |-> ""]

RECURSIVE DropAddons(_)
DropAddons(s) ==
    IF s # <<>> /\ is_addon(Head(s)) THEN DropAddons(Tail(s)) ELSE s

\* The removal of a product row that pops the product alone.
RemoveSelCtk_product_only(items, sel) ==
    IF items = <<>> THEN [items |-> items, dialog |-> ""]
    ELSE IF sel = 0
         THEN [items |-> items, dialog |-> "Error: Could not map selected item to order"]
    ELSE IF ~is_addon(items[sel])
         THEN [items |-> Pop(items, sel), dialog |-> "Removed product and its addons"]
         ELSE [items |-> Pop(items, sel), dialog |-> "Removed addon"]

\* The removal of an add-on row that also pops the add-ons after it.
RemoveSelCtk_addon_rest(items, sel) ==
    IF items = <<>> THEN [items |-> items, dialog |-> ""]
    ELSE IF sel = 0
         THEN [items |-> items, dialog |-> "Error: Could not map selected item to order"]
    ELSE IF ~is_addon(items[sel])
         THEN [items |-> SubSeq(items, 1, sel - 1)
                         \o DropAddons(SubSeq(items, sel + 1, Len(items))),
               dialog |-> "Removed product and its addons"]
         ELSE [items |-> SubSeq(items, 1, sel - 1)
                         \o DropAddons(SubSeq(items, sel + 1, Len(items))),
               dialog |-> "Removed addon"]

\* CustomTkinter _remove_from_dine_in through tree_index_map.
RemoveSelCtk(items, sel) ==
    IF items = <<>> THEN [items |-> items, dialog |-> ""]
    ELSE IF sel = 0
         THEN [items |-> items, dialog |-> "Error: Could not map selected item to order"]
    ELSE IF ~is_addon(items[sel])
         THEN [items |-> SubSeq(items, 1, sel - 1)
                         \o DropAddons(SubSeq(items, sel + 1, Len(items))),
               dialog |-> "Removed product and its addons"]
         ELSE [items |-> Pop(items, sel), dialog |-> "Removed addon"]

RemoveSel(u, items, sel) ==
    IF u = "tk" THEN RemoveSelTk(items, sel) ELSE RemoveSelCtk(items, sel)

remove_sel_dine_in(sel) ==
    LET r == RemoveSel(ui, order, sel)
    IN /\ order' = r.items
       /\ last' = Did("remove_sel_dine_in", r.dialog)
       /\ UNCHANGED <<config, stocks, files, holds, order_sent_to_kitchen, wins, ledger>>

\* _remove_from_carry_out popping the order at the end of the queue whatever
\* row is selected.
RemoveCarryOut_last(u, held, labels, k, j) ==
    IF j = 0
    THEN [held |-> Pop(held, Len(held)), labels |-> Pop(labels, Len(labels)),
          dialog |-> "Removed carry-out order"]
    ELSE IF u = "tk"
    THEN [held |-> held, labels |-> labels, dialog |-> "Info: remove the entire order"]
    ELSE LET order_items == Pop(held[k], j) IN
         IF order_items = <<>>
         THEN [held |-> Pop(held, k), labels |-> Pop(labels, k), dialog |-> "Removed item"]
         ELSE [held |-> [held EXCEPT ![k] = order_items], labels |-> labels,
               dialog |-> "Removed item"]

\* _remove_from_carry_out; k is the selected order row, j the selected child
\* row under it (0 when the order row itself is selected).
RemoveCarryOut(u, held, labels, k, j) ==
    IF j = 0
    THEN [held |-> Pop(held, k), labels |-> Pop(labels, k), dialog |-> "Removed carry-out order"]
    ELSE IF u = "tk"
    THEN [held |-> held, labels |-> labels, dialog |-> "Info: remove the entire order"]
    ELSE LET order_items == Pop(held[k], j) IN
         IF order_items = <<>>
         THEN [held |-> Pop(held, k), labels |-> Pop(labels, k), dialog |-> "Removed item"]
         ELSE [held |-> [held EXCEPT ![k] = order_items], labels |-> labels,
               dialog |-> "Removed item"]

remove_sel_carry_out(k, j) ==
    LET r == RemoveCarryOut(ui, held_orders, hold_labels, k, j)
    IN /\ held_orders' = r.held
       /\ hold_labels' = r.labels
       /\ last' = Did("remove_sel_carry_out", r.dialog)
       /\ UNCHANGED <<config, stocks, files, order, hold_seq, order_sent_to_kitchen,
                      wins, ledger>>

cancel_order(yes) ==
    /\ order' = IF order # <<>> /\ yes THEN <<>> ELSE order
    /\ last' = Did("cancel_order", IF order = <<>> THEN "Nothing" ELSE "Cancel?")
    /\ UNCHANGED <<config, stocks, files, holds, order_sent_to_kitchen, wins, ledger>>

print_receipt ==
    /\ last' = Did("print_receipt", IF order = <<>> THEN "Empty" ELSE "Receipt Preview")
    /\ UNCHANGED <<config, stocks, files, order, holds, order_sent_to_kitchen, wins, ledger>>

(***************************************************************************)
(* Send to kitchen.                                                        *)
(***************************************************************************)
\* The loop of send_to_kitchen: reduce item by item, return at the first
\* reduction that fails.
RECURSIVE SendLoop(_, _, _)
SendLoop(items, ps, as) ==
    IF items = <<>> THEN [ok |-> TRUE, ps |-> ps, as |-> as, dialog |-> ""]
    ELSE LET item == Head(items) IN
         IF is_addon(item)
         THEN LET r == reduce_addon_stock(as, item.id, item.q) IN
              IF ~r.ok THEN [ok |-> FALSE, ps |-> ps, as |-> as,
                             dialog |-> "Stock Error: addon"]
              ELSE SendLoop(Tail(items), ps, r.stock)
         ELSE LET r == reduce_stock(ps, item.id, item.q) IN
              IF ~r.ok THEN [ok |-> FALSE, ps |-> ps, as |-> as,
                             dialog |-> "Stock Error: product"]
              ELSE SendLoop(Tail(items), r.stock, as)

\* send_to_kitchen that starts a new cart when it aborts as well.
send_to_kitchen_clear_on_abort(io) ==
    IF order = <<>>
    THEN /\ last' = Did("send_to_kitchen", "Kitchen: No order to send")
         /\ UNCHANGED <<config, stocks, files, order, holds, order_sent_to_kitchen,
                        wins, ledger>>
    ELSE LET r == SendLoop(order, prodStock, addonStock) IN
         /\ prodStock' = r.ps
         /\ addonStock' = r.as
         /\ order' = IF ui = "tk" THEN <<>> ELSE order
         /\ IF r.ok
            THEN /\ prodFile' = save_products(prodFile, r.ps, io).file
                 /\ addonFile' = save_addons(addonFile, r.as, io).file
                 /\ order_sent_to_kitchen' = IF ui = "ctk" THEN TRUE
                                             ELSE order_sent_to_kitchen
                 /\ last' = Did("send_to_kitchen", "Kitchen: Order sent")
            ELSE /\ UNCHANGED <<files, order_sent_to_kitchen>>
                 /\ last' = Did("send_to_kitchen", r.dialog)
         /\ UNCHANGED <<config, holds, wins, ledger>>

\* io: whether the stock files can be written while the handler runs.
send_to_kitchen(io) ==
    IF order = <<>>
    THEN /\ last' = Did("send_to_kitchen", "Kitchen: No order to send")
         /\ UNCHANGED <<config, stocks, files, order, holds, order_sent_to_kitchen,
                        wins, ledger>>
    ELSE LET r == SendLoop(order, prodStock, addonStock) IN
         /\ prodStock' = r.ps
         /\ addonStock' = r.as
         /\ IF r.ok
            THEN /\ prodFile' = save_products(prodFile, r.ps, io).file
                 /\ addonFile' = save_addons(addonFile, r.as, io).file
                 /\ order' = IF ui = "tk" THEN <<>> ELSE order
                 /\ order_sent_to_kitchen' = IF ui = "ctk" THEN TRUE
                                             ELSE order_sent_to_kitchen
                 /\ last' = Did("send_to_kitchen", "Kitchen: Order sent")
            ELSE /\ UNCHANGED <<files, order, order_sent_to_kitchen>>
                 /\ last' = Did("send_to_kitchen", r.dialog)
         /\ UNCHANGED <<config, holds, wins, ledger>>

(***************************************************************************)
(* Checkout.                                                               *)
(***************************************************************************)
checkout_popup ==
    /\ wins < MaxWin
    /\ IF order = <<>>
       THEN /\ last' = Did("checkout_popup", "Empty")
            /\ UNCHANGED wins
       ELSE IF ui = "ctk" /\ ~order_sent_to_kitchen
       THEN /\ last' = Did("checkout_popup", "Kitchen: Send the order first")
            /\ UNCHANGED wins
       ELSE /\ last' = Did("checkout_popup", "Checkout Confirmation")
            /\ wins' = wins + 1
    /\ UNCHANGED <<config, stocks, files, order, holds, order_sent_to_kitchen, ledger>>

\* The first loop of the Tkinter confirm(): pid_val is the item's prodID, or
\* its alias 'id', or None; the result of reduce_stock is dropped, and
\* save_products runs after every item.
RECURSIVE ConfirmLoop(_, _, _, _, _)
ConfirmLoop(items, ps, file, alias, io) ==
    IF items = <<>> THEN [ps |-> ps, file |-> file]
    ELSE LET item == Head(items)
             has_pid == ~is_addon(item) \/ alias
             ps1 == IF has_pid THEN reduce_stock(ps, item.id, item.q).stock ELSE ps
         IN ConfirmLoop(Tail(items), ps1, save_products(file, ps1, io).file, alias, io)

\* confirm() of an open checkout window.  io: whether the files can be
\* written while the handler runs.  alias: whether the Addon objects of
\* restaraunt_system carry the attribute 'id' that getattr(p, 'id', None) reads.
confirm(tip_str, io, alias) ==
    /\ wins > 0
    /\ LET r == IF ui = "tk"
                THEN ConfirmLoop(order, prodStock, prodFile, alias, io)
                ELSE [ps |-> prodStock, file |-> prodFile]
           subtotal == total(order)
           tax == TaxOf(subtotal)
           tip == TipOf(tip_str)
       IN /\ prodStock' = r.ps
          /\ prodFile' = r.file
          /\ ledger' = IF io THEN save_to_file(ledger, order, tax, tip) ELSE ledger
          /\ last' = Did("confirm", IF io THEN "Done" ELSE "Error: Failed to save order")
    /\ order' = <<>>
    /\ order_sent_to_kitchen' = IF ui = "ctk" THEN FALSE ELSE order_sent_to_kitchen
    /\ wins' = wins - 1
    /\ UNCHANGED <<config, addonStock, addonFile, holds>>

close_checkout ==
    /\ wins > 0
    /\ wins' = wins - 1
    /\ last' = Did("close_checkout", "")
    /\ UNCHANGED <<config, stocks, files, order, holds, order_sent_to_kitchen, ledger>>

(***************************************************************************)
(* Carry-out (held) orders.                                                *)
(***************************************************************************)
\* hold_order numbering the new order by its position in the queue.
hold_order_tk_by_position ==
    /\ ui = "tk"
    /\ IF order = <<>>
       THEN /\ last' = Did("hold_order", "Carry-Out: No items")
            /\ UNCHANGED <<order, holds>>
       ELSE /\ held_orders' = Append(held_orders, order)
            /\ hold_labels' = Append(hold_labels, Len(held_orders) + 1)
            /\ hold_seq' = hold_seq + 1
            /\ order' = <<>>
            /\ last' = Did("hold_order", "Carry-Out: Order moved to queue")
    /\ UNCHANGED <<config, stocks, files, order_sent_to_kitchen, wins, ledger>>

\* Tkinter hold_order: the whole cart moves to the queue.
hold_order_tk ==
    /\ ui = "tk"
    /\ IF order = <<>>
       THEN /\ last' = Did("hold_order", "Carry-Out: No items")
            /\ UNCHANGED <<order, holds>>
       ELSE /\ held_orders' = Append(held_orders, order)
            /\ hold_labels' = Append(hold_labels, hold_seq)
            /\ hold_seq' = hold_seq + 1
            /\ order' = <<>>
            /\ last' = Did("hold_order", "Carry-Out: Order moved to queue")
    /\ UNCHANGED <<config, stocks, files, order_sent_to_kitchen, wins, ledger>>

\* CustomTkinter hold_order: the selected product goes to the queue, and only
\* while the dine-in cart is empty.
hold_order_ctk(pid, text) ==
    /\ ui = "ctk"
    /\ IF order # <<>>
       THEN /\ last' = Did("hold_order", "Carry-Out: Finish or clear Dine-In")
            /\ UNCHANGED holds
       ELSE IF BadQuantity(text)
       THEN /\ last' = Did("hold_order", "Bad Quantity")
            /\ UNCHANGED holds
       ELSE IF prodStock[pid] < text.val
       THEN /\ last' = Did("hold_order", "Out of Stock")
            /\ UNCHANGED holds
       ELSE /\ held_orders' = Append(held_orders, <<LineItem("Product", pid, text.val)>>)
            /\ hold_labels' = Append(hold_labels, hold_seq)
            /\ hold_seq' = hold_seq + 1
            /\ last' = Did("hold_order", "Carry-Out: Added to queue")
    /\ UNCHANGED <<config, stocks, files, order, order_sent_to_kitchen, wins, ledger>>

(***************************************************************************)
(* Catalog maintenance.                                                    *)
(***************************************************************************)
reload_menu ==
    /\ prodStock' = loadProducts(prodFile)
    /\ addonStock' = loadAddons(addonFile)
    /\ last' = Did("reload_menu", "Reloaded")
    /\ UNCHANGED <<config, files, order, holds, order_sent_to_kitchen, wins, ledger>>

\* update_stock and the apply_update of its prompt window.
update_stock(pid, text, io) ==
    /\ IF ~text.num \/ text.val < 0
       THEN /\ last' = Did("update_stock", "Invalid")
            /\ UNCHANGED <<stocks, files>>
       ELSE /\ prodStock' = [prodStock EXCEPT ![pid] = text.val]
            /\ prodFile' = save_products(prodFile, prodStock', io).file
            /\ last' = Did("update_stock", "Updated")
            /\ UNCHANGED <<addonStock, addonFile>>
    /\ UNCHANGED <<config, order, holds, order_sent_to_kitchen, wins, ledger>>

\* The process ends and main.py starts the front-end again: __init__ over the
\* files as they are.
restart ==
    /\ prodStock' = loadProducts(prodFile)
    /\ addonStock' = loadAddons(addonFile)
    /\ order' = <<>>
    /\ held_orders' = <<>>
    /\ hold_labels' = <<>>
    /\ hold_seq' = 1
    /\ order_sent_to_kitchen' = FALSE
    /\ wins' = 0
    /\ last' = Did("__init__", "")
    /\ UNCHANGED <<config, files, ledger>>

\* BackendAdapter.reduce_stock and reduce_addon_stock called on their own.
call_reduce_stock(pid, qty) ==
    LET r == reduce_stock(prodStock, pid, qty)
    IN /\ prodStock' = r.stock
       /\ last' = [op |-> "reduce_stock", dialog |-> "", id |-> pid, qty |-> qty,
                   ok |-> r.ok]
       /\ UNCHANGED <<config, addonStock, files, order, holds, order_sent_to_kitchen,
                      wins, ledger>>

call_reduce_addon_stock(aid, qty) ==
    LET r == reduce_addon_stock(addonStock, aid, qty)
    IN /\ addonStock' = r.stock
       /\ last' = [op |-> "reduce_addon_stock", dialog |-> "", id |-> aid, qty |-> qty,
                   ok |-> r.ok]
       /\ UNCHANGED <<config, prodStock, files, order, holds, order_sent_to_kitchen,
                      wins, ledger>>

\* Order.save_to_file of models/order.py called on an Order holding items,
\* with its default tax and tip.
call_Order_save_to_file(items, price_attr) ==
    /\ ledger' = Order_save_to_file(ledger, items, price_attr, 0, 0)
    /\ last' = Did("Order.save_to_file", "")
    /\ UNCHANGED <<config, stocks, files, order, holds, order_sent_to_kitchen, wins>>

\* BackendAdapter.save_products and save_addons called on their own.
call_save_products(io) ==
    LET r == save_products(prodFile, prodStock, io)
    IN /\ prodFile' = r.file
       /\ last' = [op |-> "save_products", dialog |-> "", ok |-> r.ok]
       /\ UNCHANGED <<config, stocks, addonFile, order, holds, order_sent_to_kitchen,
                      wins, ledger>>

call_save_addons(io) ==
    LET r == save_addons(addonFile, addonStock, io)
    IN /\ addonFile' = r.file
       /\ last' = [op |-> "save_addons", dialog |-> "", ok |-> r.ok]
       /\ UNCHANGED <<config, stocks, prodFile, order, holds, order_sent_to_kitchen,
                      wins, ledger>>

(***************************************************************************)
(* The session.                                                            *)
(***************************************************************************)
Tick == steps < MaxSteps /\ steps' = steps + 1

Blocks(file) == Cardinality({i \in 1..Len(file) : file[i][1] = "Subtotal: $"})

AddToOrder ==
    /\ Tick
    /\ \E tree \in {"menu_tree", "addon_menu_tree"}, iid \in ProdIds \cup AddonIds,
       text \in QtyTexts :
            /\ tree = "menu_tree" => iid \in ProdIds
            /\ tree = "addon_menu_tree" => iid \in AddonIds
            /\ add_to_order(tree, iid, text)
            /\ Len(order') <= MaxCart

AddModStep ==
    /\ Tick
    /\ \E aid \in AddonIds, text \in QtyTexts :
            add_mod(aid, text) /\ Len(order') <= MaxCart

RemoveLast == Tick /\ remove_last_item

RemoveSelDineIn == Tick /\ \E sel \in 0..Len(order) : remove_sel_dine_in(sel)

RemoveSelCarryOut ==
    /\ Tick
    /\ \E k \in 1..Len(held_orders) :
            \E j \in 0..Len(held_orders[k]) : remove_sel_carry_out(k, j)

CancelOrder == Tick /\ \E yes \in BOOLEAN : cancel_order(yes)

PrintReceipt == Tick /\ print_receipt

SendToKitchen == Tick /\ \E io \in BOOLEAN : send_to_kitchen(io)

CheckoutPopup == Tick /\ checkout_popup

Confirm ==
    /\ Tick
    /\ Blocks(ledger) < MaxAppends
    /\ \E tip_str \in TipTexts, io \in BOOLEAN, alias \in BOOLEAN :
            confirm(tip_str, io, alias)

CloseCheckout == Tick /\ close_checkout

HoldOrderTk ==
    /\ Tick
    /\ Len(held_orders) < MaxHeld
    /\ hold_seq <= MaxHoldSeq
    /\ hold_order_tk

HoldOrderCtk ==
    /\ Tick
    /\ Len(held_orders) < MaxHeld
    /\ hold_seq <= MaxHoldSeq
    /\ \E pid \in ProdIds, text \in QtyTexts : hold_order_ctk(pid, text)

ReloadMenu == Tick /\ reload_menu

UpdateStock ==
    Tick /\ \E pid \in ProdIds, text \in StockTexts, io \in BOOLEAN : update_stock(pid, text, io)

Next ==
    \/ AddToOrder
    \/ AddModStep
    \/ RemoveLast
    \/ RemoveSelDineIn
    \/ RemoveSelCarryOut
    \/ CancelOrder
    \/ PrintReceipt
    \/ SendToKitchen
    \/ CheckoutPopup
    \/ Confirm
    \/ CloseCheckout
    \/ HoldOrderTk
    \/ HoldOrderCtk
    \/ ReloadMenu
    \/ UpdateStock

Spec == Init /\ [][Next]_vars

Free == UNCHANGED steps

(***************************************************************************)
(* Adjustment model: the two stock reductions of BackendAdapter applied to *)
(* every stock, known and unknown identifiers, and deltas of both signs.   *)
(***************************************************************************)
UnknownIds == {9}
Deltas == (0 - MaxQty)..MaxQty

J_ReduceStock ==
    /\ Free
    /\ \E pid \in ProdIds \cup UnknownIds, qty \in Deltas :
            /\ call_reduce_stock(pid, qty)
            /\ \A p \in ProdIds : prodStock'[p] <= MaxStock

J_ReduceAddonStock ==
    /\ Free
    /\ \E aid \in AddonIds \cup UnknownIds, qty \in Deltas :
            /\ call_reduce_addon_stock(aid, qty)
            /\ \A a \in AddonIds : addonStock'[a] <= MaxStock

NextAdjust == J_ReduceStock \/ J_ReduceAddonStock

SpecAdjust == Init /\ [][NextAdjust]_vars

(***************************************************************************)
(* Add model: add_to_order and add_mod over several menus, stock levels    *)
(* and quantities up to MaxStock + 1, from carts of at most AddMaxBefore   *)
(* line items.                                                             *)
(***************************************************************************)
AddMenus ==
    { (1 :> <<"None">>) @@ (2 :> <<"1", "2">>),
      (1 :> <<"">>) @@ (2 :> <<"2", "9">>),
      (1 :> <<"None">>) @@ (2 :> <<"1", "x">>),
      (1 :> <<"2">>) @@ (2 :> <<"2", "1">>) }
AddQtyTexts == {NotANumber} \cup {Numeral(v) : v \in (0 - 1)..(MaxStock + 1)}

InitAdd ==
    \E u \in {"tk", "ctk"}, menu \in AddMenus,
       ps \in [ProdIds -> {MaxStock, MaxStock + 1}],
       as \in [AddonIds -> {0, MaxStock, MaxStock + 1}] :
        Construct(u, menu, ps, AddonFileOf(as), <<>>)

A_AddToOrder ==
    /\ Free
    /\ Len(order) <= AddMaxBefore
    /\ \E tree \in {"menu_tree", "addon_menu_tree"}, iid \in ProdIds \cup AddonIds,
          text \in AddQtyTexts :
            /\ tree = "menu_tree" => iid \in ProdIds
            /\ tree = "addon_menu_tree" => iid \in AddonIds
            /\ add_to_order(tree, iid, text)

A_AddMod ==
    /\ Free
    /\ Len(order) <= AddMaxBefore
    /\ \E aid \in AddonIds, text \in AddQtyTexts : add_mod(aid, text)

NextAdd == A_AddToOrder \/ A_AddMod

SpecAdd == InitAdd /\ [][NextAdd]_vars

(***************************************************************************)
(* Cart model: the cart-editing handlers alone, carts of up to MaxCart + 1 *)
(* line items.                                                             *)
(***************************************************************************)
R_AddToOrder ==
    /\ Free
    /\ \E tree \in {"menu_tree", "addon_menu_tree"}, iid \in ProdIds \cup AddonIds,
          text \in QtyTexts :
            /\ tree = "menu_tree" => iid \in ProdIds
            /\ tree = "addon_menu_tree" => iid \in AddonIds
            /\ add_to_order(tree, iid, text)
            /\ Len(order') <= MaxCart + 1

R_AddMod ==
    /\ Free
    /\ \E aid \in AddonIds, text \in QtyTexts :
            add_mod(aid, text) /\ Len(order') <= MaxCart + 1

R_RemoveLast == Free /\ remove_last_item

R_RemoveSelDineIn == Free /\ \E sel \in 0..Len(order) : remove_sel_dine_in(sel)

R_CancelOrder == Free /\ \E yes \in BOOLEAN : cancel_order(yes)

NextCart ==
    \/ R_AddToOrder
    \/ R_AddMod
    \/ R_RemoveLast
    \/ R_RemoveSelDineIn
    \/ R_CancelOrder

SpecCart == Init /\ [][NextCart]_vars

(***************************************************************************)
(* Ledger model: one product (or one preset group) per cart, sent, checked *)
(* out and appended to the ledger, up to MaxAppends blocks, across         *)
(* restarts of the process.                                                *)
(***************************************************************************)
L_AddToOrder ==
    /\ Free
    /\ order = <<>>
    /\ \E iid \in ProdIds : add_to_order("menu_tree", iid, Numeral(1))

L_SendToKitchen == Free /\ send_to_kitchen(TRUE)

L_CheckoutPopup == Free /\ checkout_popup

L_Confirm ==
    /\ Free
    /\ Blocks(ledger) < MaxAppends
    /\ \E tip_str \in {NotANumber, Numeral(1)}, io \in BOOLEAN, alias \in BOOLEAN :
            confirm(tip_str, io, alias)

L_OrderSave ==
    /\ Free
    /\ Blocks(ledger) < MaxAppends
    /\ \E pid \in ProdIds, price_attr \in BOOLEAN :
            call_Order_save_to_file(<<LineItem("Product", pid, 1)>>, price_attr)

L_CloseCheckout == Free /\ close_checkout

L_CancelOrder == Free /\ cancel_order(TRUE)

L_Restart == Free /\ restart

NextLedger ==
    \/ L_AddToOrder
    \/ L_SendToKitchen
    \/ L_CheckoutPopup
    \/ L_Confirm
    \/ L_OrderSave
    \/ L_CloseCheckout
    \/ L_CancelOrder
    \/ L_Restart

SpecLedger == Init /\ [][NextLedger]_vars

(***************************************************************************)
(* Commit model: reductions and commits of both stores over several        *)
(* layouts of the add-on file.  The file holds a record of an add-on the   *)
(* catalog does not track (UntrackedId) in one of them.                    *)
(***************************************************************************)
UntrackedId == 9
Blank == <<"", 0>>

\* addonID, addonName, addonPrice, addonStock, record after record.
LayoutPlain(fs) == AddonFileOf(fs)

\* A comment line, blank lines between the records, the stock line not last,
\* other lines between the identifier and the stock, an untracked record.
LayoutMixed(fs) ==
    << <<"# addons", 0>>,
       <<"addonID=", 1>>, <<"addonStock=", fs[1]>>, <<"addonName=", 1>>, Blank,
       <<"addonID=", UntrackedId>>, <<"addonName=", UntrackedId>>,
       <<"addonStock=", MaxStock>>, Blank,
       <<"addonID=", 2>>, <<"note=", 0>>, <<"addonPrice=", addonPrice[2]>>,
       <<"addonStock=", fs[2]>> >>

\* Each record gives its stock line before its identifier line.
LayoutStockFirst(fs) ==
    << <<"addonStock=", fs[1]>>, <<"addonID=", 1>>, <<"addonName=", 1>>, Blank,
       <<"addonStock=", MaxStock>>, <<"addonID=", UntrackedId>>, Blank,
       <<"addonStock=", fs[2]>>, <<"addonID=", 2>>, <<"addonName=", 2>> >>

\* The identifier of one record is not a number.
LayoutBadId(fs) ==
    << <<"addonID=", 1>>, <<"addonStock=", fs[1]>>, Blank,
       <<"addonID=x", 0>>, <<"addonStock=", MaxStock>>, Blank,
       <<"addonID=", 2>>, <<"addonStock=", fs[2]>> >>

AddonLayouts(fs) ==
    {LayoutPlain(fs), LayoutMixed(fs), LayoutStockFirst(fs), LayoutBadId(fs)}

InitCommit ==
    \E u \in {"tk", "ctk"}, fs \in [AddonIds -> 1..MaxStock] :
        \E af \in AddonLayouts(fs) :
            /\ ui = u
            /\ prodPresetAddons = MenuPresets
            /\ prodFile = [p \in ProdIds |-> MaxStock]
            /\ addonFile = af
            /\ prodStock = loadProducts(prodFile)
            /\ addonStock = fs
            /\ order = <<>>
            /\ held_orders = <<>>
            /\ hold_labels = <<>>
            /\ hold_seq = 1
            /\ order_sent_to_kitchen = FALSE
            /\ wins = 0
            /\ ledger = <<>>
            /\ last = Did("__init__", "")
            /\ steps = 0

M_ReduceStock ==
    Free /\ \E pid \in ProdIds, qty \in 1..MaxQty : call_reduce_stock(pid, qty)

M_ReduceAddonStock ==
    Free /\ \E aid \in AddonIds, qty \in 1..MaxQty : call_reduce_addon_stock(aid, qty)

M_SaveProducts == Free /\ \E io \in BOOLEAN : call_save_products(io)

M_SaveAddons == Free /\ \E io \in BOOLEAN : call_save_addons(io)

NextCommit ==
    \/ M_ReduceStock
    \/ M_ReduceAddonStock
    \/ M_SaveProducts
    \/ M_SaveAddons

SpecCommit == InitCommit /\ [][NextCommit]_vars

(***************************************************************************)
(* Properties of the whole session (Spec).                                 *)
(***************************************************************************)
\* Every line item of the cart can be served from the stock at hand.
Satisfiable(items, ps, as) ==
    /\ \A p \in ProdIds : QtyOf(items, "Product", p) <= ps[p]
    /\ \A a \in AddonIds : QtyOf(items, "Addon", a) <= as[a]

\* C1: a send_to_kitchen of a cart with a line item the stock cannot serve
\* leaves every product and add-on stock as it was before the action; stock
\* is decremented only when the whole cart can be served.
C1_SendAllOrNothing ==
    [][\A io \in BOOLEAN :
          (send_to_kitchen(io) /\ ~Satisfiable(order, prodStock, addonStock))
              => (prodStock' = prodStock /\ addonStock' = addonStock)]_vars

\* C3: in every reachable state the stock of every product and of every
\* add-on is a non-negative integer.
C3_StockNonNegative ==
    /\ \A p \in ProdIds : prodStock[p] \in Nat
    /\ \A a \in AddonIds : addonStock[a] \in Nat

\* A send has taken an add-on to zero and was then refused a further unit.
C3_Witness ==
    /\ last = Did("send_to_kitchen", "Stock Error: addon")
    /\ \E a \in AddonIds : addonStock[a] = 0

\* C7: every add-on line item of the cart has a product line item somewhere
\* before it; the first line item of a non-empty cart is not an add-on.
C7_NoOrphanAddon ==
    \A i \in 1..Len(order) :
        is_addon(order[i]) => \E j \in 1..(i - 1) : ~is_addon(order[j])

\* C8: after a send_to_kitchen that served the whole cart and wrote both
\* files, each stock is its value before the action minus the quantities of
\* the cart's line items for that entry, and the stock recorded in the
\* product file and in the add-on file is the in-memory stock.
C8_SendSubtractsAndCommits ==
    [][(send_to_kitchen(TRUE) /\ last'.dialog = "Kitchen: Order sent")
          => /\ \A p \in ProdIds :
                    prodStock'[p] = prodStock[p] - QtyOf(order, "Product", p)
             /\ \A a \in AddonIds :
                    addonStock'[a] = addonStock[a] - QtyOf(order, "Addon", a)
             /\ loadProducts(prodFile') = prodStock'
             /\ loadAddons(addonFile') = addonStock']_vars

\* A sent cart took units of a product and of an add-on, and both files agree
\* with memory.
C8_Witness ==
    /\ last = Did("send_to_kitchen", "Kitchen: Order sent")
    /\ \E p \in ProdIds : prodStock[p] < MaxStock
    /\ \E a \in AddonIds : addonStock[a] < MaxStock
    /\ loadProducts(prodFile) = prodStock
    /\ loadAddons(addonFile) = addonStock

(***************************************************************************)
(* Properties of the stock adjustments (SpecAdjust).                       *)
(***************************************************************************)
\* What a bounded adjustment of entry id by delta d does to the stocks st:
\* the result flag and the stocks afterwards.
BoundedAdjust(st, id, d) ==
    IF id \in DOMAIN st /\ st[id] + d >= 0
    THEN [ok |-> TRUE, stock |-> [x \in DOMAIN st |-> IF x = id THEN st[x] + d ELSE st[x]]]
    ELSE [ok |-> FALSE, stock |-> st]

\* C2: adjusting a stock s by d succeeds and leaves s + d when s + d >= 0
\* (zero included), fails and leaves s when s + d < 0, and fails changing
\* nothing for an unknown identifier; reduce_addon_stock(aid, qty) behaves so
\* with d = -qty, exactly as reduce_stock(pid, qty) does.
C2_BoundedAdjustment ==
    [][/\ \A pid \in ProdIds \cup UnknownIds, qty \in Deltas :
            call_reduce_stock(pid, qty)
                => /\ last'.ok = BoundedAdjust(prodStock, pid, 0 - qty).ok
                   /\ prodStock' = BoundedAdjust(prodStock, pid, 0 - qty).stock
                   /\ addonStock' = addonStock
       /\ \A aid \in AddonIds \cup UnknownIds, qty \in Deltas :
            call_reduce_addon_stock(aid, qty)
                => /\ last'.ok = BoundedAdjust(addonStock, aid, 0 - qty).ok
                   /\ addonStock' = BoundedAdjust(addonStock, aid, 0 - qty).stock
                   /\ prodStock' = prodStock]_vars

\* An add-on reduction has succeeded and left exactly zero, and a product stock
\* stands at zero as well.
C2_Witness ==
    /\ last.op = "reduce_addon_stock"
    /\ last.ok
    /\ last.qty > 0
    /\ last.id \in AddonIds
    /\ addonStock[last.id] = 0
    /\ \E p \in ProdIds : prodStock[p] = 0

(***************************************************************************)
(* Properties of adding to the cart (SpecAdd).                             *)
(***************************************************************************)
\* The request for q units of product p cannot be served in full: the product
\* or one of its preset add-ons is short, or a preset token is no integer or
\* names no add-on of the catalog.
CannotServe(presets, ps, as, p, q) ==
    \/ ps[p] < q
    \/ /\ presets[p] \notin NoPresets
       /\ \E k \in 1..Len(presets[p]) :
            \/ ~IsIntText(presets[p][k])
            \/ TokInt[presets[p][k]] \notin DOMAIN as
            \/ as[TokInt[presets[p][k]]] < q

\* C4: add_to_order of a product with a quantity that the product's stock or
\* the stock of one of its preset add-ons cannot serve in full, or with a
\* preset identifier that is missing or not an integer, leaves the cart's
\* line items exactly as they were.
C4_AddFailsAtomically ==
    [][\A iid \in ProdIds, text \in AddQtyTexts :
          (/\ add_to_order("menu_tree", iid, text)
           /\ ~BadQuantity(text)
           /\ CannotServe(prodPresetAddons, prodStock, addonStock, iid, text.val))
              => order' = order]_vars

\* A request was refused for a preset add-on although every preset add-on of
\* the menu had at least one unit, and the cart still holds its one line item.
C4_Witness ==
    /\ last = Did("add_to_order", "Out of Stock: preset addon")
    /\ prodPresetAddons = MenuPresets
    /\ \A a \in AddonIds : addonStock[a] >= 1
    /\ Len(order) = 1

\* The line items a successful add of q units of product p appends.
Appended(presets, p, q) ==
    IF presets[p] \in NoPresets THEN <<LineItem("Product", p, q)>>
    ELSE LET k == Len(presets[p]) IN
         [n \in 1..(q * (1 + k)) |->
            IF (n - 1) % (1 + k) = 0 THEN LineItem("Product", p, 1)
            ELSE LineItem("Addon", TokInt[presets[p][(n - 1) % (1 + k)]], 1)]

\* C5: a successful add_to_order of q units of product p appends one line
\* item (p, q) when p has no preset add-ons, and q consecutive groups
\* (p,1),(A1,1),...,(Ak,1) in preset order, q*(1+k) line items, when it has
\* k >= 1; the line items already in the cart stay, in front.
C5_AddAppendsGroups ==
    [][\A iid \in ProdIds, text \in AddQtyTexts :
          (add_to_order("menu_tree", iid, text) /\ last'.dialog = "")
              => order' = order \o Appended(prodPresetAddons, iid, text.val)]_vars

\* MaxStock + 1 units of a product with two preset add-ons were added to a cart
\* of one line item.
C5_Witness ==
    /\ last = Did("add_to_order", "")
    /\ Len(order) = 1 + (MaxStock + 1) * 3
    /\ order[2] = LineItem("Product", 2, 1)
    /\ is_addon(order[Len(order)])

(***************************************************************************)
(* Properties of removing a group (SpecCart).                              *)
(***************************************************************************)
\* Index of the first product line item after position i, Len(items) + 1 when
\* there is none.
NextProduct(items, i) ==
    LET later == {j \in (i + 1)..Len(items) : ~is_addon(items[j])}
    IN IF later = {} THEN Len(items) + 1
       ELSE CHOOSE j \in later : \A m \in later : j <= m

\* C6: in the CustomTkinter front-end, removing the product line item at
\* index i removes that product and the contiguous add-on line items right
\* after it, up to the next product or the end of the list; the line items
\* before i and those from the next product on stay, in their order.
C6_RemoveGroup ==
    [][\A sel \in 1..Len(order) :
          (ui = "ctk" /\ ~is_addon(order[sel]) /\ remove_sel_dine_in(sel))
              => order' = SubSeq(order, 1, sel - 1)
                          \o SubSeq(order, NextProduct(order, sel), Len(order))]_vars

\* A product was removed with its add-ons, and the cart that remains begins
\* with two products.
C6_Witness ==
    /\ ui = "ctk"
    /\ last = Did("remove_sel_dine_in", "Removed product and its addons")
    /\ Len(order) >= 2
    /\ ~is_addon(order[1])
    /\ ~is_addon(order[2])

(***************************************************************************)
(* Properties of the order ledger (SpecLedger).                            *)
(***************************************************************************)
\* C9: the k-th append to the ledger, whatever the carts and across restarts,
\* begins its block with the header "Order #k": numbers are consecutive,
\* without gaps or repeats.
C9_ConsecutiveOrderNumbers ==
    [][ledger' # ledger
          => /\ Len(ledger') > Len(ledger)
             /\ ledger'[Len(ledger) + 1] = <<"Order #", Blocks(ledger) + 1, 0, 0>>]_vars

\* C10: the ledger before any step is a prefix of the ledger after it: an
\* append keeps what was written, and nothing truncates, rewrites or deletes
\* a block.
C10_LedgerAppendOnly ==
    [][IsPrefix(ledger, ledger')]_vars

\* A checkout has appended its block behind an earlier one.
C10_Witness ==
    /\ last = Did("confirm", "Done")
    /\ Blocks(ledger) = 2

(***************************************************************************)
(* Properties of checkout (Spec).                                          *)
(***************************************************************************)
\* C11: a confirmed checkout of a non-empty cart appends exactly one record
\* to the ledger, whose item lines are the cart's line items at confirmation,
\* and leaves the cart empty; checkout never resets the cart without having
\* appended its record.
C11_CheckoutAppendsRecord ==
    [][\A tip_str \in TipTexts, io \in BOOLEAN, alias \in BOOLEAN :
          (confirm(tip_str, io, alias) /\ order # <<>>)
              => /\ order' = <<>>
                 /\ IsPrefix(ledger, ledger')
                 /\ Blocks(ledger') = Blocks(ledger) + 1
                 /\ Len(ledger') >= Len(ledger) + 1 + Len(order)
                 /\ SubSeq(ledger', Len(ledger) + 2, Len(ledger) + 1 + Len(order))
                        = [k \in 1..Len(order) |-> ItemLine(order[k])]]_vars

\* C12: a confirmed checkout of a cart the stock can serve reduces the stock
\* of the entry of every line item, product or add-on, by the line item's
\* quantity.
C12_CheckoutReducesStock ==
    [][\A tip_str \in TipTexts, io \in BOOLEAN, alias \in BOOLEAN :
          (confirm(tip_str, io, alias) /\ Satisfiable(order, prodStock, addonStock))
              => /\ \A p \in ProdIds :
                        prodStock'[p] = prodStock[p] - QtyOf(order, "Product", p)
                 /\ \A a \in AddonIds :
                        addonStock'[a] = addonStock[a] - QtyOf(order, "Addon", a)]_vars

\* The dialogs with which send_to_kitchen, confirm and apply_update report
\* success.
SuccessDialogs == {"Kitchen: Order sent", "Done", "Updated"}

\* C13: when a stock reduction or a commit returns False during
\* send_to_kitchen, checkout or update_stock, the handler ends on a warning
\* or error dialog, never on its report of success.
C13_FailuresSurfaced ==
    [][/\ \A io \in BOOLEAN :
            (/\ send_to_kitchen(io)
             /\ order # <<>>
             /\ LET r == SendLoop(order, prodStock, addonStock)
                IN \/ ~r.ok
                   \/ ~save_products(prodFile, r.ps, io).ok
                   \/ ~save_addons(addonFile, r.as, io).ok)
                => last'.dialog \notin SuccessDialogs
       /\ \A pid \in ProdIds, text \in StockTexts, io \in BOOLEAN :
            (/\ update_stock(pid, text, io)
             /\ text.num /\ text.val >= 0
             /\ ~save_products(prodFile, prodStock', io).ok)
                => last'.dialog \notin SuccessDialogs
       /\ \A tip_str \in TipTexts, io \in BOOLEAN, alias \in BOOLEAN :
            (/\ confirm(tip_str, io, alias)
             /\ ui = "tk"
             /\ \E k \in 1..Len(order) :
                    /\ ~is_addon(order[k])
                    /\ ~reduce_stock(prodStock, order[k].id, order[k].q).ok)
                => last'.dialog \notin SuccessDialogs]_vars

(***************************************************************************)
(* Properties of the carry-out queue (Spec).                               *)
(***************************************************************************)
\* C14: held orders are numbered 1, 2, 3, ... in the order they are queued:
\* the sequence starts at 1, each successful hold_order labels the new order
\* with the next number, which is above every label in the queue, a rejected
\* hold_order takes no number, and removals neither lower the sequence nor
\* give a label to another order.
C14_HoldNumbering ==
    /\ hold_seq = 1
    /\ [][/\ Len(held_orders') > Len(held_orders)
              => /\ hold_labels' = Append(hold_labels, hold_seq)
                 /\ hold_seq' = hold_seq + 1
                 /\ \A i \in 1..Len(hold_labels) : hold_labels[i] < hold_seq
          /\ Len(held_orders') <= Len(held_orders)
              => /\ hold_seq' = hold_seq
                 /\ \A i \in 1..Len(hold_labels') :
                        \E j \in 1..Len(hold_labels) : hold_labels'[i] = hold_labels[j]]_vars

\* The first held order was removed and the next one queued carries #2.
C14_Witness ==
    /\ last.op = "hold_order"
    /\ Len(held_orders) = 1
    /\ hold_labels = <<2>>

\* The handlers that change the active cart without queueing it.
CartHandlers ==
    {"add_to_order", "add_mod", "remove_last_item", "remove_sel_dine_in",
     "cancel_order", "send_to_kitchen", "confirm"}

\* C15: the order a hold_order queues has the line items the active cart had
\* when it was called, and adding to, removing from, cancelling, sending or
\* checking out the active cart afterwards leaves the line items of every
\* held order as they were.
C15_HoldSnapshotsCart ==
    [][/\ Len(held_orders') > Len(held_orders)
              => held_orders' = Append(held_orders, order)
       /\ last'.op \in CartHandlers => held_orders' = held_orders]_vars

\* The sequence s without its k-th element.
Without(s, k) == [i \in 1..(Len(s) - 1) |-> IF i < k THEN s[i] ELSE s[i + 1]]

\* C16: queueing a held order, removing a held order and removing one item
\* of a held order leave the stock of every product and add-on, in memory and
\* in both files, as it was; removing a held order takes exactly the selected
\* order out of the queue and keeps the others in their order.
C16_HoldOpsKeepStock ==
    [][/\ last'.op \in {"hold_order", "remove_sel_carry_out"}
            => /\ prodStock' = prodStock /\ addonStock' = addonStock
               /\ prodFile' = prodFile /\ addonFile' = addonFile
       /\ \A k \in 1..Len(held_orders) :
            remove_sel_carry_out(k, 0)
                => /\ held_orders' = Without(held_orders, k)
                   /\ hold_labels' = Without(hold_labels, k)]_vars

\* Of two held orders the first was removed; the second remains.
C16_Witness ==
    /\ last = Did("remove_sel_carry_out", "Removed carry-out order")
    /\ Len(held_orders) = 1
    /\ hold_labels = <<2>>

(***************************************************************************)
(* Properties of the cart total (SpecCart).                                *)
(***************************************************************************)
\* Unit price times the quantity ordered, added up entry by entry of the
\* catalog.
CatalogSum(items) ==
    prodPrice[1] * QtyOf(items, "Product", 1) + prodPrice[2] * QtyOf(items, "Product", 2)
    + addonPrice[1] * QtyOf(items, "Addon", 1) + addonPrice[2] * QtyOf(items, "Addon", 2)

\* C17: in every reachable cart state total() is the sum of unit price times
\* quantity over the line items, and remove_last_item and the removal of the
\* selected line item or group never raise the total.
C17_TotalIsSum ==
    /\ total(order) = CatalogSum(order)
    /\ [][/\ total(order') = CatalogSum(order')
          /\ last'.op \in {"remove_last_item", "remove_sel_dine_in"}
                => total(order') <= total(order)]_vars

\* A product was removed with its add-ons from a cart that still holds a line
\* item of quantity two.
C17_Witness ==
    /\ last = Did("remove_sel_dine_in", "Removed product and its addons")
    /\ \E i \in 1..Len(order) : order[i].q = 2
    /\ total(order) >= 2 * addonPrice[1]

(***************************************************************************)
(* Properties of the commits (SpecCommit).                                 *)
(***************************************************************************)
\* The records of an add-on file: a record ends at a blank line, or where a
\* field it already holds comes again.  id 0 and stock -1 stand for a field
\* the record does not give; at is the set of the record's line numbers.
NoRecord == [id |-> 0, stock |-> 0 - 1, at |-> {}]

Closed(cur, acc) == IF cur = NoRecord THEN acc ELSE Append(acc, cur)

RECURSIVE AddonRecords(_, _, _, _)
AddonRecords(lines, i, cur, acc) ==
    IF i > Len(lines) THEN Closed(cur, acc)
    ELSE LET line == lines[i]
             here == [cur EXCEPT !.at = @ \cup {i}]
             fresh == [NoRecord EXCEPT !.at = {i}]
         IN
         IF line = Blank
         THEN AddonRecords(lines, i + 1, NoRecord, Closed(cur, acc))
         ELSE IF line[1] = "addonID="
         THEN IF cur.id # 0
              THEN AddonRecords(lines, i + 1, [fresh EXCEPT !.id = line[2]],
                                Closed(cur, acc))
              ELSE AddonRecords(lines, i + 1, [here EXCEPT !.id = line[2]], acc)
         ELSE IF line[1] = "addonStock="
         THEN IF cur.stock # NoRecord.stock
              THEN AddonRecords(lines, i + 1, [fresh EXCEPT !.stock = line[2]],
                                Closed(cur, acc))
              ELSE AddonRecords(lines, i + 1, [here EXCEPT !.stock = line[2]], acc)
         ELSE AddonRecords(lines, i + 1, here, acc)

RecordsOf(lines) == AddonRecords(lines, 1, NoRecord, <<>>)

\* The persisted stock field of the record of add-on a.
StockField(lines, a) ==
    LET recs == RecordsOf(lines)
        at == {k \in 1..Len(recs) : recs[k].id = a}
    IN IF at = {} THEN NoRecord.stock ELSE recs[CHOOSE k \in at : TRUE].stock

\* The identifier of the record block that holds line i (0: none).
LineOwner(lines, i) ==
    LET recs == RecordsOf(lines)
        at == {k \in 1..Len(recs) : i \in recs[k].at}
    IN IF at = {} THEN 0 ELSE recs[CHOOSE k \in at : TRUE].id

\* Every record of the file gives an addonID line and an addonStock line.
CompleteRecords(lines) ==
    LET recs == RecordsOf(lines)
    IN \A i \in 1..Len(recs) : recs[i].id # 0 /\ recs[i].stock # NoRecord.stock

\* C18: after a commit that reports success, the persisted stock field of every
\* record whose identifier is in the in-memory catalog equals the in-memory
\* stock, for products (save_products) and, for every add-on file layout in
\* which each record has an addonID line and an addonStock line, for add-ons
\* (save_addons).
C18_CommitPersistsStock ==
    [][/\ (last'.op = "save_products" /\ last'.ok)
            => \A p \in ProdIds : loadProducts(prodFile')[p] = prodStock'[p]
       /\ (last'.op = "save_addons" /\ last'.ok /\ CompleteRecords(addonFile))
            => \A a \in AddonIds : StockField(addonFile', a) = addonStock'[a]]_vars

\* The same statement for the layouts in which no record gives its stock line
\* before its identifier line.
IdentifierFirst ==
    \A i \in 1..Len(addonFile) :
        addonFile[i][1] = "addonStock=" =>
            \E j \in 1..(i - 1) :
                /\ addonFile[j][1] = "addonID="
                /\ \A k \in (j + 1)..(i - 1) : addonFile[k] # Blank

CommitPersistsIdentifierFirst ==
    [][(last'.op = "save_addons" /\ last'.ok /\ IdentifierFirst)
            => \A a \in AddonIds : StockField(addonFile', a) = addonStock'[a]]_vars

\* C19: save_addons changes only addonStock lines that lie inside a record
\* block whose addonID is a tracked identifier; every other line, the number of
\* lines and the line order are the same before and after the commit.
C19_TargetedRewrite ==
    [][last'.op = "save_addons" =>
          /\ Len(addonFile') = Len(addonFile)
          /\ \A i \in 1..Len(addonFile) :
                addonFile'[i] # addonFile[i] =>
                    /\ addonFile[i][1] = "addonStock="
                    /\ addonFile'[i][1] = "addonStock="
                    /\ LineOwner(addonFile, i) \in AddonIds]_vars

\* The identifier line that most recently precedes line i (0: none).
PrecedingId(lines, i) ==
    LET ids == {j \in 1..(i - 1) : lines[j][1] = "addonID="}
    IN IF ids = {} THEN 0
       ELSE lines[CHOOSE j \in ids : \A k \in ids : k <= j][2]

\* The same statement with the block of an identifier taken as the lines from
\* its addonID line up to the next addonID line.
TargetedRewriteAfterIdentifier ==
    [][last'.op = "save_addons" =>
          /\ Len(addonFile') = Len(addonFile)
          /\ \A i \in 1..Len(addonFile) :
                addonFile'[i] # addonFile[i] =>
                    /\ addonFile[i][1] = "addonStock="
                    /\ addonFile'[i][1] = "addonStock="
                    /\ PrecedingId(addonFile, i) \in AddonIds]_vars

\* C20: a commit that follows a successful commit, with no stock change in
\* between, leaves the backing file as the first commit left it, for the
\* add-on store (save_addons) and the product store (save_products).
C20_CommitIdempotent ==
    [][/\ (last'.op = "save_addons" /\ last'.ok)
            => /\ save_addons(addonFile', addonStock', TRUE).file = addonFile'
               /\ (last.op = "save_addons" /\ last.ok) => addonFile' = addonFile
       /\ (last'.op = "save_products" /\ last'.ok)
            => /\ save_products(prodFile', prodStock', TRUE).file = prodFile'
               /\ (last.op = "save_products" /\ last.ok) => prodFile' = prodFile]_vars

\* A successful add-on commit has written a stock lower than any the file
\* started with.
C20_Witness ==
    /\ last.op = "save_addons"
    /\ last.ok
    /\ \E a \in AddonIds : addonStock[a] = 0 /\ StockField(addonFile, a) = 0

\* C21: when the add-on file cannot be read or written, or one of its addonID
\* lines does not parse, save_addons returns False, and the in-memory stock of
\* every product and add-on is what it was before the call.
C21_CommitFailureReported ==
    [][\A io \in BOOLEAN :
          (call_save_addons(io) /\ (~io \/ ScanRaises(addonFile)))
              => /\ last'.ok = FALSE
                 /\ prodStock' = prodStock
                 /\ addonStock' = addonStock]_vars

\* A commit over a file with an unparsable identifier has failed while memory
\* held a stock the file does not.
C21_Witness ==
    /\ last.op = "save_addons"
    /\ ~last.ok
    /\ ScanRaises(addonFile)
    /\ \E a \in AddonIds : addonStock[a] = 0 /\ StockField(addonFile, a) > 0

(***************************************************************************)
(* Properties of the quantities (Spec).                                    *)
(***************************************************************************)
\* Every line item of the cart and of every held order has a quantity >= 1.
QuantitiesPositive ==
    /\ \A i \in 1..Len(order) : order[i].q \in Nat /\ order[i].q >= 1
    /\ \A k \in 1..Len(held_orders) :
            \A i \in 1..Len(held_orders[k]) :
                held_orders[k][i].q \in Nat /\ held_orders[k][i].q >= 1

C23_RemoveLine ==
    [][\A sel \in 1..Len(order) :
          (ui = "ctk" /\ is_addon(order[sel]) /\ remove_sel_dine_in(sel))
              => /\ order' = Without(order, sel)
                 /\ Len(order') = Len(order) - 1]_vars

\* An add-on was removed from a group whose product and next add-on remain.
C23_Witness ==
    /\ ui = "ctk"
    /\ last = Did("remove_sel_dine_in", "Removed addon")
    /\ Len(order) >= 2
    /\ ~is_addon(order[1])
    /\ is_addon(order[2])

(***************************************************************************)
(* Properties of sending to the kitchen (Spec).                            *)
(***************************************************************************)
\* C24: in the CustomTkinter front-end, whenever order_sent_to_kitchen is true
\* the cart's line items are those of the most recent successful
\* send_to_kitchen: the flag is true after a step only when that step was a
\* successful send of the cart as it stands, or the flag was true before and
\* the step left the cart as it was.
C24_SentFlagMatchesCart ==
    [][(ui = "ctk" /\ order_sent_to_kitchen')
          => \/ /\ last' = Did("send_to_kitchen", "Kitchen: Order sent")
                /\ order' = order
             \/ /\ order_sent_to_kitchen
                /\ order' = order]_vars

\* C25: in the CustomTkinter front-end the stock is subtracted at most once
\* for a cart: a send_to_kitchen that follows a successful send_to_kitchen of
\* the same cart subtracts nothing.
C25_SendSubtractsOnce ==
    [][(/\ ui = "ctk"
        /\ last = Did("send_to_kitchen", "Kitchen: Order sent")
        /\ last'.op = "send_to_kitchen")
          => prodStock' = prodStock /\ addonStock' = addonStock]_vars

\* C26: when the stock in both files equals the stock in memory before a
\* send_to_kitchen and the files can be written, it does so after it, whether
\* the send served the cart or aborted on a line item the stock cannot serve.
C26_SendLeavesFilesInStep ==
    [][(/\ send_to_kitchen(TRUE)
        /\ loadProducts(prodFile) = prodStock
        /\ loadAddons(addonFile) = addonStock)
          => /\ loadProducts(prodFile') = prodStock'
             /\ loadAddons(addonFile') = addonStock']_vars

(***************************************************************************)
(* Properties of 'Remove Sel.' in the Tkinter front-end (SpecCart).        *)
(***************************************************************************)
\* C27: in the Tkinter front-end, removing the selected row of the dine-in
\* order pops the line item that row displays when it is a top-level row, and
\* with an add-on child row selected no other line item is removed.
C27_RemoveSelectedRow ==
    [][\A sel \in 1..Len(order) :
          (ui = "tk" /\ remove_sel_dine_in(sel))
              => IF IsTopRow(order, sel)
                 THEN order' = Without(order, sel)
                 ELSE order' = order \/ order' = Without(order, sel)]_vars

(***************************************************************************)
(* Properties of the add-time stock check (SpecAdd).                       *)
(***************************************************************************)
\* C28: right after every successful add_to_order or add_mod, for every
\* product and add-on the quantities of the cart's line items of that entry
\* add up to at most the entry's stock.
C28_CartWithinStock ==
    [][(last'.op \in {"add_to_order", "add_mod"} /\ last'.dialog = "")
          => Satisfiable(order', prodStock', addonStock')]_vars

C30_SendEmptiesCartOnSuccess ==
    [][\A io \in BOOLEAN :
          (ui = "tk" /\ send_to_kitchen(io))
              => IF order # <<>> /\ SendLoop(order, prodStock, addonStock).ok
                 THEN order' = <<>> /\ last'.dialog = "Kitchen: Order sent"
                 ELSE order' = order /\ last'.dialog # "Kitchen: Order sent"]_vars

\* A send has aborted on an add-on and the cart still holds its line items.
C30_Witness ==
    /\ ui = "tk"
    /\ last = Did("send_to_kitchen", "Stock Error: addon")
    /\ Len(order) >= 2

============================================================================
